---- MODULE Spec2Model ----
(***************************************************************************)
(* HAWKI_ETC (src/etc_module_hmbp.py): exposure-time calculator for the    *)
(* HAWKI imager.  One HAWKI_ETC object, the photometry service hmbp it     *)
(* queries, the interpreter's sys.stdout / sys.stderr, and the calls a     *)
(* user makes on the object.                                               *)
(*                                                                         *)
(* Numbers.  The code computes in IEEE floating point.  The model computes *)
(* in decimal floating point: a value is m * 10^e with a signed mantissa   *)
(* of eight digits (10^7 <= |m| < 10^8, or m = 0), results are truncated   *)
(* to eight digits, and the special values nan, +inf and -inf behave as    *)
(* numpy's do (x/0 = inf, 0/0 = nan, sqrt and log10 of a negative = nan).  *)
(*                                                                         *)
(* Quantities.  An astropy Quantity is a value with a unit; a unit is the  *)
(* vector of exponents of the base units s, m, arcsec, pix, electron, ph.  *)
(*                                                                         *)
(* Magnitudes.  log10 of a decimal float is not a decimal float, so a      *)
(* magnitude M = -2.5 log10(r) is carried by its argument r (M smaller     *)
(* means r larger): log10(0) = -inf gives M = +inf, log10 of a negative    *)
(* number or of nan gives M = nan, log10(+inf) gives M = -inf.             *)
(***************************************************************************)
EXTENDS Integers, Sequences, FiniteSets, TLC

(***************************************************************************)
(* Decimal floating point.                                                 *)
(***************************************************************************)
MantLo == 10000000
MantHi == 100000000
HalfBase == 10000

Abs(x) == IF x < 0 THEN -x ELSE x
Sgn(x) == IF x < 0 THEN -1 ELSE IF x = 0 THEN 0 ELSE 1

NaN == [k |-> "nan", m |-> 0, e |-> 0]
PInf == [k |-> "inf", m |-> 1, e |-> 0]
NInf == [k |-> "inf", m |-> -1, e |-> 0]
Zero == [k |-> "num", m |-> 0, e |-> 0]

IsNaN(a) == a.k = "nan"
IsInf(a) == a.k = "inf"
IsNum(a) == a.k = "num"
FSign(a) == IF IsNaN(a) THEN 0 ELSE Sgn(a.m)
SignedInf(s) == IF s < 0 THEN NInf ELSE PInf

RECURSIVE NormAbs(_, _)
\* a non-negative integer p and an exponent, brought to eight digits
NormAbs(p, e) ==
    IF p = 0 THEN <<0, 0>>
    ELSE IF p >= MantHi THEN NormAbs(p \div 10, e + 1)
    ELSE IF p < MantLo THEN NormAbs(p * 10, e - 1)
    ELSE <<p, e>>

\* the float s * p * 10^e, s a sign and p >= 0
Norm(s, p, e) ==
    LET n == NormAbs(p, e)
    IN  IF n[1] = 0 THEN Zero ELSE [k |-> "num", m |-> s * n[1], e |-> n[2]]

\* the integer n times 10^e: how a literal of the source is written
Dec(n, e) == Norm(Sgn(n), Abs(n), e)

FNeg(a) == IF IsNaN(a) THEN NaN ELSE [a EXCEPT !.m = -a.m]

\* the product of two eight-digit mantissas, exactly, in two halves of eight
\* digits, and its leading eight digits
FMul(a, b) ==
    IF IsNaN(a) \/ IsNaN(b) THEN NaN
    ELSE IF IsInf(a) \/ IsInf(b)
         THEN IF a.m = 0 \/ b.m = 0 THEN NaN ELSE SignedInf(Sgn(a.m) * Sgn(b.m))
    ELSE IF a.m = 0 \/ b.m = 0 THEN Zero
    ELSE LET x == Abs(a.m)
             y == Abs(b.m)
             x1 == x \div HalfBase
             x0 == x % HalfBase
             y1 == y \div HalfBase
             y0 == y % HalfBase
             mid == x1 * y0 + x0 * y1
             low == (mid % HalfBase) * HalfBase + x0 * y0
             hi == x1 * y1 + mid \div HalfBase + low \div MantHi
             lo == low % MantHi
             sg == Sgn(a.m) * Sgn(b.m)
         IN  IF hi >= MantLo
             THEN [k |-> "num", m |-> sg * hi, e |-> a.e + b.e + 8]
             ELSE [k |-> "num", m |-> sg * (hi * 10 + lo \div MantLo), e |-> a.e + b.e + 7]

RECURSIVE DivDigits(_, _, _, _)
\* n more digits of the quotient r / y, appended to acc
DivDigits(r, y, n, acc) ==
    IF n = 0 THEN acc
    ELSE DivDigits((r * 10) % y, y, n - 1, acc * 10 + (r * 10) \div y)

FDiv(a, b) ==
    IF IsNaN(a) \/ IsNaN(b) THEN NaN
    ELSE IF IsInf(a)
         THEN IF IsInf(b) THEN NaN
              ELSE SignedInf(Sgn(a.m) * (IF b.m < 0 THEN -1 ELSE 1))
    ELSE IF IsInf(b) THEN Zero
    ELSE IF b.m = 0
         THEN IF a.m = 0 THEN NaN ELSE SignedInf(Sgn(a.m))
    ELSE IF a.m = 0 THEN Zero
    ELSE LET x == Abs(a.m)
             y == Abs(b.m)
             q == DivDigits(x % y, y, 8, x \div y)
         IN  Norm(Sgn(a.m) * Sgn(b.m), q, a.e - b.e - 8)

RECURSIVE Pow10(_)
Pow10(n) == IF n = 0 THEN 1 ELSE 10 * Pow10(n - 1)

FAdd(a, b) ==
    IF IsNaN(a) \/ IsNaN(b) THEN NaN
    ELSE IF IsInf(a)
         THEN IF IsInf(b) /\ a.m # b.m THEN NaN ELSE a
    ELSE IF IsInf(b) THEN b
    ELSE IF a.m = 0 THEN b
    ELSE IF b.m = 0 THEN a
    ELSE LET hi == IF a.e >= b.e THEN a ELSE b
             lo == IF a.e >= b.e THEN b ELSE a
             d == hi.e - lo.e
             \* the smaller operand is held to one more digit than the result
             low == IF d > 9 THEN 0
                    ELSE IF d = 0 THEN Sgn(lo.m) * Abs(lo.m) * 10
                    ELSE Sgn(lo.m) * (Abs(lo.m) \div Pow10(d - 1))
             sum == hi.m * 10 + low
         IN  Norm(Sgn(sum), Abs(sum), hi.e - 1)

FSub(a, b) == FAdd(a, FNeg(b))

RECURSIVE ISqrtIter(_, _)
\* Newton's iteration for the integer square root of n, from a guess x >= isqrt(n)
ISqrtIter(n, x) ==
    LET y == (x + n \div x) \div 2
    IN  IF y >= x THEN x ELSE ISqrtIter(n, y)

ISqrt(n) == IF n = 0 THEN 0 ELSE ISqrtIter(n, 32768)

FSqrt(a) ==
    IF IsNaN(a) THEN NaN
    ELSE IF a.m < 0 THEN NaN
    ELSE IF IsInf(a) THEN PInf
    ELSE IF a.m = 0 THEN Zero
    ELSE LET odd == (a.e % 2) = 1
             x == IF odd THEN a.m * 10 ELSE a.m
             e == IF odd THEN a.e - 1 ELSE a.e
             s0 == ISqrt(x)
             s == s0 * HalfBase + ((x - s0 * s0) * HalfBase) \div (2 * s0)
         IN  Norm(1, s, (e \div 2) - 4)

\* a < b, false when either is nan
FLt(a, b) ==
    IF IsNaN(a) \/ IsNaN(b) THEN FALSE
    ELSE IF IsInf(a) THEN a.m < 0 /\ ~(IsInf(b) /\ b.m < 0)
    ELSE IF IsInf(b) THEN b.m > 0
    ELSE IF Sgn(a.m) # Sgn(b.m) THEN Sgn(a.m) < Sgn(b.m)
    ELSE IF a.m = 0 THEN FALSE
    ELSE IF a.m > 0 THEN a.e < b.e \/ (a.e = b.e /\ a.m < b.m)
    ELSE a.e > b.e \/ (a.e = b.e /\ a.m < b.m)

FEq(a, b) == ~IsNaN(a) /\ ~IsNaN(b) /\ a = b
FLe(a, b) == FLt(a, b) \/ FEq(a, b)
FGe(a, b) == FLe(b, a)
FGt(a, b) == FLt(b, a)

(***************************************************************************)
(* astropy units and quantities.                                           *)
(***************************************************************************)
BaseUnits == {"s", "m", "arcsec", "pix", "electron", "ph"}

Dimensionless == [b \in BaseUnits |-> 0]
BaseUnit(name) == [b \in BaseUnits |-> IF b = name THEN 1 ELSE 0]
UMul(x, y) == [b \in BaseUnits |-> x[b] + y[b]]
UDiv(x, y) == [b \in BaseUnits |-> x[b] - y[b]]
UPow(x, n) == [b \in BaseUnits |-> n * x[b]]

Second == BaseUnit("s")
Metre == BaseUnit("m")
Arcsec == BaseUnit("arcsec")
Pixel == BaseUnit("pix")
Electron == BaseUnit("electron")
Photon == BaseUnit("ph")

Q(v, u) == [v |-> v, u |-> u]
QMul(x, y) == Q(FMul(x.v, y.v), UMul(x.u, y.u))
QDiv(x, y) == Q(FDiv(x.v, y.v), UDiv(x.u, y.u))
\* q ** 2, q ** 2.0
QSquare(x) == Q(FMul(x.v, x.v), UPow(x.u, 2))
\* a plain number times a quantity
QScale(f, x) == Q(FMul(f, x.v), x.u)

\* np.pi, to the model's eight digits
Pi == Dec(31415926, -7)

(***************************************************************************)
(* HAWKI_ETC.__init__: the object's attributes.  Nothing is validated.     *)
(***************************************************************************)
\* a constructor whose aperture is that of the default seeing, whatever seeing is
FixedAperture(exposure_time, airmass, pwv, seeing, obstruction_factor, reflectance_factor) ==
    [ exposure_time |-> exposure_time, airmass |-> airmass, pwv |-> pwv, seeing |-> seeing,
      telescope_size |-> QScale(Pi, QSquare(Q(Dec(4, 0), Metre))),
      obstruction_factor |-> obstruction_factor,
      reflectance_factor |-> reflectance_factor,
      efficiency_factor |-> FMul(obstruction_factor, reflectance_factor),
      collection_area |-> QScale(FMul(obstruction_factor, reflectance_factor),
                                 QScale(Pi, QSquare(Q(Dec(4, 0), Metre)))),
      quantum_efficiency |-> Q(Dec(9, -1), UDiv(Electron, Photon)),
      pixel_scale |-> Q(Dec(106, -3), UDiv(Arcsec, Pixel)),
      aper |-> QScale(Pi, QSquare(Q(Dec(8, -1), Arcsec))) ]

HAWKI_ETC(exposure_time, airmass, pwv, seeing, obstruction_factor, reflectance_factor) ==
    LET telescope_size == QScale(Pi, QSquare(Q(Dec(4, 0), Metre)))
        efficiency_factor == FMul(obstruction_factor, reflectance_factor)
    IN  [ exposure_time |-> exposure_time,
          airmass |-> airmass,
          pwv |-> pwv,
          seeing |-> seeing,
          telescope_size |-> telescope_size,
          obstruction_factor |-> obstruction_factor,
          reflectance_factor |-> reflectance_factor,
          efficiency_factor |-> efficiency_factor,
          collection_area |-> QScale(efficiency_factor, telescope_size),
          quantum_efficiency |-> Q(Dec(9, -1), UDiv(Electron, Photon)),
          pixel_scale |-> Q(Dec(106, -3), UDiv(Arcsec, Pixel)),
          aper |-> QScale(Pi, QSquare(seeing)) ]

(***************************************************************************)
(* The photometry service hmbp, an external collaborator.  svc holds what  *)
(* it answers: the lookups that cannot reach it (broken), the sky          *)
(* background and the zero-point photon flux of a recognized filter, and   *)
(* src, the factor by which its flux for a source of magnitude 0 differs   *)
(* from its zero point (1 when the two agree).  A lookup answers           *)
(* [ok, q, exc]: a quantity, or the error the service raises.              *)
(***************************************************************************)
RecognizedFilters == {"Ks"}
Filters == RecognizedFilters \cup {"XX"}

PhotonFluxUnit == UDiv(Photon, UMul(Second, UPow(Metre, 2)))

ServiceError(s, fn, filter_name) ==
    IF fn \in s.broken THEN "hmbp: service unreachable" ELSE "hmbp: unknown filter"

Answers(s, fn, filter_name) == fn \notin s.broken /\ filter_name \in RecognizedFilters

Answer(s, fn, filter_name, value) ==
    IF Answers(s, fn, filter_name)
    THEN [ok |-> TRUE, q |-> Q(value, PhotonFluxUnit), exc |-> ""]
    ELSE [ok |-> FALSE, q |-> Q(NaN, Dimensionless),
          exc |-> ServiceError(s, fn, filter_name)]

\* hmbp.in_skycalc_background(filter_name, airmass=, pwv=)
in_skycalc_background(s, filter_name, airmass, pwv) ==
    Answer(s, "in_skycalc_background", filter_name, s.sky)

\* hmbp.in_zero_vega_mags(filter_name, "HAWKI", "Paranal")
in_zero_vega_mags(s, filter_name) == Answer(s, "in_zero_vega_mags", filter_name, s.zero)

\* hmbp.for_flux_in_filter(filter_name, star_flux, instrument="HAWKI", observatory="Paranal"):
\* Pogson's law, 10^(-0.4 M) times the flux at magnitude 0; star_flux is the
\* magnitude, carried by r = 10^(-0.4 M)
for_flux_in_filter(s, filter_name, star_flux) ==
    Answer(s, "for_flux_in_filter", filter_name, FMul(FMul(s.src, s.zero), star_flux))

(***************************************************************************)
(* What a call leaves behind: the object, the interpreter's streams, and   *)
(* either a returned value (of type ty: "quantity", "float", "mag",        *)
(* "figure") or a raised exception; calls lists the service lookups made,  *)
(* events and wrote what plot did.                                         *)
(***************************************************************************)
NoValue == [k |-> "none", m |-> 0, e |-> 0]

Return(self, io, ty, q, calls) ==
    [ self |-> self, io |-> io, outcome |-> "return", ty |-> ty, v |-> q.v, u |-> q.u,
      exc |-> "", calls |-> calls, events |-> <<>>, wrote |-> {} ]

Raise(self, io, exc, calls) ==
    [ self |-> self, io |-> io, outcome |-> "raise", ty |-> "none", v |-> NoValue,
      u |-> Dimensionless, exc |-> exc, calls |-> calls, events |-> <<>>, wrote |-> {} ]

Lookup(fn, filter_name, a) == [fn |-> fn, filter |-> filter_name, ok |-> a.ok]

\* sys.stdout = io.StringIO(); sys.stderr = io.StringIO()
Redirect(io) == [io EXCEPT !.stdout = "StringIO", !.stderr = "StringIO"]

\* the lookup writes its warnings to whatever sys.stderr is at the time
Diagnostics(io) == [io EXCEPT !.leaked = io.leaked \/ io.stderr # "StringIO"]

\* a sky_noise that restored the streams after the try block instead of in a
\* finally: the restore is skipped when the lookup raises
RestoreAfterTry(io, old, ok) ==
    IF ok THEN [io EXCEPT !.stdout = old.stdout, !.stderr = old.stderr] ELSE io

\* finally: sys.stdout = old_stdout; sys.stderr = old_stderr, whether or not
\* the lookup raised
FinallyRestore(io, old, ok) == [io EXCEPT !.stdout = old.stdout, !.stderr = old.stderr]

\* sky * self.quantum_efficiency * self.exposure_time * self.collection_area * self.aper,
\* sky the looked-up background / u.arcsec ** 2
SkyAper(self, background) ==
    QMul(QMul(QMul(QMul(Q(background.v, UDiv(background.u, UPow(Arcsec, 2))),
                        self.quantum_efficiency), self.exposure_time),
              self.collection_area), self.aper)

\* a sky_noise that caught the lookup's error and went on with a zero background
SkyNoiseSwallowing(self, old, filter_name, a) ==
    Return(self, [old EXCEPT !.leaked = FALSE], "quantity",
           IF a.ok THEN SkyAper(self, a.q) ELSE Q(Zero, Electron),
           <<[fn |-> "in_skycalc_background", filter |-> filter_name, ok |-> a.ok]>>)

\* sky_noise once the lookup has answered a: the try ... finally and the return
SkyNoiseAfter(self, old, filter_name, a) ==
    LET after == FinallyRestore(Diagnostics(Redirect(old)), old, a.ok)
        calls == <<Lookup("in_skycalc_background", filter_name, a)>>
    IN  IF a.ok THEN Return(self, after, "quantity", SkyAper(self, a.q), calls)
        ELSE Raise(self, after, a.exc, calls)

\* HAWKI_ETC.sky_noise
sky_noise(self, s, io, filter_name) ==
    SkyNoiseAfter(self, io, filter_name,
                  in_skycalc_background(s, filter_name, self.airmass, self.pwv))

\* n_pix = self.aper / self.pixel_scale ** 2.0
n_pix(self) == QDiv(self.aper, QSquare(self.pixel_scale))

\* a dark_current_noise that kept its pixel count in self.aper
DarkCurrentNoiseStoring(self, io) ==
    [ self |-> [self EXCEPT !.aper = QDiv(self.aper, QSquare(self.pixel_scale))], io |-> io,
      outcome |-> "return", ty |-> "quantity", v |-> Zero, u |-> Electron, exc |-> "",
      calls |-> <<>>, events |-> <<>>, wrote |-> {} ]

\* HAWKI_ETC.dark_current_noise
dark_current_noise(self, io) ==
    Return(self, io, "quantity",
           QMul(QMul(Q(Dec(125, -4), UDiv(UDiv(Electron, Second), UPow(Pixel, 2))),
                     n_pix(self)), self.exposure_time),
           <<>>)

\* a read_noise that did not square the per-pixel read noise
ReadNoiseUnsquared(self, io) ==
    Return(self, io, "quantity",
           QMul(Q(Dec(85, -1), UDiv(Electron, Pixel)),
                QDiv(self.aper, QSquare(self.pixel_scale))),
           <<>>)

\* HAWKI_ETC.read_noise
read_noise(self, io) ==
    Return(self, io, "quantity",
           QMul(QSquare(Q(Dec(85, -1), UDiv(Electron, Pixel))), n_pix(self)),
           <<>>)

Plain(v) == Q(v, Dimensionless)

\* signal = photons * self.collection_area * self.quantum_efficiency * self.exposure_time
Signal(self, photons) ==
    QMul(QMul(QMul(photons, self.collection_area), self.quantum_efficiency),
         self.exposure_time)

\* signal.value + sky_noise.value + dark_current_noise.value + read_noise.value
TotalVariance(signal, sky, dark, read) == FAdd(FAdd(FAdd(signal, sky), dark), read)

\* snr_aper = signal.value / np.sqrt(...): no guard on the square root's argument
\* or on the divisor
SnrAper(signal, sky, dark, read) ==
    FDiv(signal, FSqrt(TotalVariance(signal, sky, dark, read)))

\* compute_sn once the flux lookup has answered a: sky is what sky_noise left
ComputeSnAfter(self, io, filter_name, a, sky, dark, read) ==
    IF ~a.ok THEN Raise(self, io, a.exc, <<Lookup("for_flux_in_filter", filter_name, a)>>)
    ELSE IF sky.outcome = "raise"
         THEN Raise(self, sky.io, sky.exc,
                    <<Lookup("for_flux_in_filter", filter_name, a)>> \o sky.calls)
    ELSE Return(self, sky.io, "float",
                Plain(SnrAper(Signal(self, a.q).v, sky.v, dark.v, read.v)),
                <<Lookup("for_flux_in_filter", filter_name, a)>> \o sky.calls)

\* HAWKI_ETC.compute_sn
compute_sn(self, s, io, star_flux, filter_name) ==
    ComputeSnAfter(self, io, filter_name, for_flux_in_filter(s, filter_name, star_flux),
                   sky_noise(self, s, io, filter_name), dark_current_noise(self, io),
                   read_noise(self, io))

\* -2.5 * np.log10(x), the magnitude carried by the argument of its logarithm:
\* nan for a negative x, +inf (carried by 0) for x = 0; nothing is raised
Magnitude(x) == IF IsNaN(x) \/ FSign(x) < 0 THEN NaN ELSE x

\* F0_electron = zero_point_flux_photon * self.collection_area * self.quantum_efficiency
\*               * self.exposure_time
F0_electron(self, zero_point_flux_photon) ==
    QMul(QMul(QMul(zero_point_flux_photon, self.collection_area), self.quantum_efficiency),
         self.exposure_time)

\* HAWKI_ETC.flux_to_mag
flux_to_mag(self, io, flux, zero_point_flux_photon) ==
    Return(self, io, "mag",
           Plain(Magnitude(FDiv(flux, F0_electron(self, zero_point_flux_photon).v))),
           <<>>)

\* a required flux that multiplies by the noise variance, not by its square root
RequiredFluxNoSqrt(desired_sn, sky, dark, read) ==
    Q(FMul(desired_sn, FAdd(FAdd(sky, dark), read)), Electron)

\* required_flux = desired_sn * np.sqrt(sky + dark + read) * u.electron: the noise
\* has no signal term
RequiredFlux(desired_sn, sky, dark, read) ==
    Q(FMul(desired_sn, FSqrt(FAdd(FAdd(sky, dark), read))), Electron)

\* detectable_star_brightness once sky_noise has left sky and the zero-point
\* lookup has answered z
DetectableAfter(self, filter_name, desired_sn, sky, dark, read, z) ==
    IF sky.outcome = "raise" THEN Raise(self, sky.io, sky.exc, sky.calls)
    ELSE IF ~z.ok
         THEN Raise(self, sky.io, z.exc,
                    sky.calls \o <<Lookup("in_zero_vega_mags", filter_name, z)>>)
    ELSE [ flux_to_mag(self, sky.io, RequiredFlux(desired_sn, sky.v, dark.v, read.v).v, z.q)
             EXCEPT !.calls = sky.calls \o <<Lookup("in_zero_vega_mags", filter_name, z)>> ]

\* HAWKI_ETC.detectable_star_brightness
detectable_star_brightness(self, s, io, desired_sn, filter_name) ==
    DetectableAfter(self, filter_name, desired_sn, sky_noise(self, s, io, filter_name),
                    dark_current_noise(self, io), read_noise(self, io),
                    in_zero_vega_mags(s, filter_name))

(***************************************************************************)
(* HAWKI_ETC.plot.  brightness_list is the sweep of magnitudes, faintest   *)
(* first; a filename is a str or is not; snr is a number or None.          *)
(***************************************************************************)
\* two stretches of the sweep, the second run after the first returned
SweepJoin(a, b) ==
    [outcome |-> b.outcome, io |-> b.io, exc |-> b.exc, calls |-> a.calls \o b.calls,
     n |-> a.n + b.n]

RECURSIVE SweepRange(_, _, _, _, _, _)
\* what one compute_sn of the sweep leaves: n counts the calls that returned
SweepOne(r) ==
    [outcome |-> r.outcome, io |-> r.io, exc |-> r.exc, calls |-> r.calls,
     n |-> IF r.outcome = "raise" THEN 0 ELSE 1]

\* elements lo .. mid have left a; elements mid + 1 .. hi follow unless a raised
SweepThen(self, s, brightness_list, mid, hi, a) ==
    IF a.outcome = "raise" THEN a
    ELSE SweepJoin(a, SweepRange(self, s, a.io, brightness_list, mid + 1, hi))

\* [self.compute_sn(brightness * u.mag) for brightness in brightness_list],
\* elements lo .. hi in order, each from the streams the one before left; the
\* range is halved to keep the evaluation shallow
SweepRange(self, s, io, brightness_list, lo, hi) ==
    IF lo > hi
    THEN [outcome |-> "return", io |-> io, exc |-> "", calls |-> <<>>, n |-> 0]
    ELSE IF lo = hi THEN SweepOne(compute_sn(self, s, io, brightness_list[lo], "Ks"))
    ELSE SweepThen(self, s, brightness_list, (lo + hi) \div 2, hi,
                   SweepRange(self, s, io, brightness_list, lo, (lo + hi) \div 2))

\* if savefig: if isinstance(filename, str): plt.savefig(filename) else: raise TypeError
SaveStep(savefig, filename) ==
    IF ~savefig THEN [outcome |-> "return", events |-> <<>>, wrote |-> {}]
    ELSE IF filename.str
         THEN [outcome |-> "return", events |-> <<"savefig">>, wrote |-> {filename.name}]
    ELSE [outcome |-> "raise", events |-> <<>>, wrote |-> {}]

\* fig, ax = plt.subplots() and the sweep
Drawn(n) == <<"subplots">> \o [i \in 1..n |-> "compute_sn"]

\* ax.scatter ... ax.set_title
Axes(snr) ==
    <<"scatter">> \o (IF snr.k # "none" THEN <<"axhline">> ELSE <<>>)
        \o <<"set_xlim", "labels", "grid", "set_yscale", "set_title">>

\* plot once the sweep has left sweep: the axes, the save step, plt.show()
PlotAfter(self, snr, sweep, save) ==
    IF sweep.outcome = "raise"
    THEN [Raise(self, sweep.io, sweep.exc, sweep.calls) EXCEPT !.events = Drawn(sweep.n)]
    ELSE IF save.outcome = "raise"
    THEN [Raise(self, sweep.io, "TypeError: filename has to be a string", sweep.calls)
             EXCEPT !.events = Drawn(sweep.n) \o Axes(snr) \o save.events,
                    !.wrote = save.wrote]
    ELSE [Return(self, sweep.io, "figure", Plain(NoValue), sweep.calls)
             EXCEPT !.events = Drawn(sweep.n) \o Axes(snr) \o save.events \o <<"show">>,
                    !.wrote = save.wrote]

\* HAWKI_ETC.plot
plot(self, s, io, brightness_list, snr, savefig, filename) ==
    PlotAfter(self, snr, SweepRange(self, s, io, brightness_list, 1, Len(brightness_list)),
              SaveStep(savefig, filename))

(***************************************************************************)
(* The inputs the model draws.                                             *)
(***************************************************************************)
MaxExposure == 1
MaxSeeing == 2
MaxSky == 1
MaxMagStep == 1

\* 0 s, 3600 s (the default), ...
ExposureTimes == {Q(Dec(3600 * i, 0), Second) : i \in 0..MaxExposure}
\* 0", 0.4", 0.8" (the default), ...
\* arcsec; nothing keeps a seeing positive
Seeings == {Q(Dec(4 * i, -1), Arcsec) : i \in -1..MaxSeeing}
ObstructionFactors == {Zero, Dec(1, 0)}
\* photons / s / m^2 / arcsec^2
SkyLevels == {Dec(750 * i, 0) : i \in 0..MaxSky}
\* photons / s / m^2 at magnitude 0
ZeroPoint == Dec(1, 9)
\* 10^(k / 25), k = 0 .. 24, to eight digits: the steps of a tenth of a magnitude
TenthSteps ==
    << 10000000, 10964781, 12022644, 13182567, 14454397,
       15848931, 17378008, 19054607, 20892961, 22908676,
       25118864, 27542287, 30199517, 33113112, 36307805,
       39810717, 43651583, 47863009, 52480746, 57543993,
       63095734, 69183097, 75857757, 83176377, 91201083 >>

\* 10^(-0.4 M) for the magnitude M = tenths / 10
Pogson(tenths) ==
    [k |-> "num", m |-> TenthSteps[((-tenths) % 25) + 1], e |-> ((-tenths) \div 25) - 7]

\* magnitudes 20, 22.5, ...
Magnitudes == {Pogson(200 + 25 * i) : i \in 0..MaxMagStep}

\* np.arange(26, 8, -0.1), in tenths of a magnitude: 26.0, 25.9, ..., 8.1
ArangeStart == 260
ArangeStop == 80
BrightnessList == [i \in 1..(ArangeStart - ArangeStop) |-> Pogson(ArangeStart - (i - 1))]
DesiredSNs == {Zero, Dec(5, 0)}
\* electrons
Fluxes == {Dec(-1000, 0), Zero, Dec(1000, 0)}
\* savefig and filename: the default, a save to a str, a save to something else
SaveRequests ==
    { [savefig |-> FALSE, filename |-> [str |-> TRUE, name |-> "etc.png"]],
      [savefig |-> TRUE, filename |-> [str |-> TRUE, name |-> "etc.png"]],
      [savefig |-> TRUE, filename |-> [str |-> FALSE, name |-> "42"]] }
\* snr: None, or the threshold to draw
SnrLines == {NoValue, Dec(5, 0)}

\* HAWKI_ETC() with the defaults of the signature
DefaultObject ==
    HAWKI_ETC(Q(Dec(3600, 0), Second), Dec(2, 0), Dec(5, 0), Q(Dec(8, -1), Arcsec),
              Dec(1, 0), Dec(1, 0))

Objects ==
    { HAWKI_ETC(t, Dec(2, 0), Dec(5, 0), see, o, Dec(1, 0)) :
        t \in ExposureTimes, see \in Seeings, o \in ObstructionFactors }

Breakages ==
    {{}, {"in_skycalc_background"}, {"for_flux_in_filter", "in_zero_vega_mags"}}

Services ==
    [broken : Breakages, sky : SkyLevels, zero : {ZeroPoint}, src : {Dec(1, 0), Dec(4, 0)}]

(***************************************************************************)
(* The state: the object, the service, the interpreter's streams, the      *)
(* files written, and the last call with what it left behind.              *)
(***************************************************************************)
VARIABLES cfg, svc, sys, files, last

vars == <<cfg, svc, sys, files, last>>

NoFile == [str |-> TRUE, name |-> ""]

NoArgs ==
    [ filter |-> "", star_flux |-> NoValue, flux |-> NoValue, desired_sn |-> NoValue,
      snr |-> NoValue, savefig |-> FALSE, filename |-> NoFile ]

Called(op, args, r) ==
    [ op |-> op, args |-> args, outcome |-> r.outcome, ty |-> r.ty, v |-> r.v, u |-> r.u,
      exc |-> r.exc, calls |-> r.calls, events |-> r.events, wrote |-> r.wrote ]

\* a call on the object: what it leaves in the object, the streams and the files
Call(op, args, r) ==
    /\ cfg' = r.self
    /\ sys' = r.io
    /\ files' = files \cup r.wrote
    /\ last' = Called(op, args, r)
    /\ UNCHANGED svc

\* the object has been constructed and nothing has been called on it
Constructed(objects) ==
    /\ cfg \in objects
    /\ svc \in Services
    /\ sys = [stdout |-> "console", stderr |-> "console", leaked |-> FALSE]
    /\ files = {}
    /\ last = Called("", NoArgs, Return(cfg, sys, "none", Plain(NoValue), <<>>))

\* etc = HAWKI_ETC(): the object every script and test of the repository makes
Init == Constructed({DefaultObject})

\* HAWKI_ETC(exposure_time=..., seeing=..., obstruction_factor=...)
InitObjects == Constructed(Objects)

SkyNoise ==
    \E f \in Filters :
        Call("sky_noise", [NoArgs EXCEPT !.filter = f], sky_noise(cfg, svc, sys, f))

DarkCurrentNoise == Call("dark_current_noise", NoArgs, dark_current_noise(cfg, sys))

ReadNoise == Call("read_noise", NoArgs, read_noise(cfg, sys))

ComputeSn ==
    \E f \in Filters, mag \in Magnitudes :
        Call("compute_sn", [NoArgs EXCEPT !.filter = f, !.star_flux = mag],
             compute_sn(cfg, svc, sys, mag, f))

FluxToMag ==
    \E flux \in Fluxes :
        Call("flux_to_mag", [NoArgs EXCEPT !.flux = flux],
             flux_to_mag(cfg, sys, flux, Q(ZeroPoint, PhotonFluxUnit)))

DetectableStarBrightness ==
    \E f \in Filters, d \in DesiredSNs :
        Call("detectable_star_brightness", [NoArgs EXCEPT !.filter = f, !.desired_sn = d],
             detectable_star_brightness(cfg, svc, sys, d, f))

\* plot(cfg, svc, sys, BrightnessList, snr, savefig, filename) for every snr,
\* savefig and filename: the sweep does not depend on them, and the calls share
\* the one of the current state
PlotCalls(sweep) ==
    \E snr \in SnrLines, save \in SaveRequests :
        Call("plot", [NoArgs EXCEPT !.snr = snr, !.savefig = save.savefig,
                                    !.filename = save.filename],
             PlotAfter(cfg, snr, sweep, SaveStep(save.savefig, save.filename)))

Plot == PlotCalls(SweepRange(cfg, svc, sys, BrightnessList, 1, Len(BrightnessList)))

Next ==
    \/ SkyNoise
    \/ DarkCurrentNoise
    \/ ReadNoise
    \/ ComputeSn
    \/ FluxToMag
    \/ DetectableStarBrightness
    \/ Plot

\* the default object under any sequence of calls
Spec == Init /\ [][Next]_vars

\* the calculator's methods, the functions of the configuration and the
\* service, on the objects the constructor accepts
Methods ==
    \/ SkyNoise
    \/ DarkCurrentNoise
    \/ ReadNoise
    \/ ComputeSn
    \/ FluxToMag
    \/ DetectableStarBrightness

MethodsSpec == InitObjects /\ [][Methods]_vars

(***************************************************************************)
(* Properties.                                                             *)
(***************************************************************************)
Returned(op) == last.op = op /\ last.outcome = "return"
Raised(op) == last.op = op /\ last.outcome = "raise"

\* C3: every call leaves sys.stdout and sys.stderr the stream objects they were
\* before it, whether the sky-background lookup returned or raised; so they are
\* the same after any sequence of calls.
C3_StreamsRestored ==
    [][sys'.stdout = sys.stdout /\ sys'.stderr = sys.stderr]_vars

\* a sky_noise whose lookup raised has run, and a caller's streams are in place
C3_Witness ==
    /\ Raised("sky_noise")
    /\ ~last.calls[1].ok
    /\ sys.stdout = "console"
    /\ sys.stderr = "console"

\* C7: no call changes an attribute of the object: the configuration and every
\* derived constant stay what the constructor set.
C7_ConfigReadOnly == [][cfg' = cfg]_vars

\* a call that failed and calls of every other kind leave a constructed object
C7_Witness ==
    /\ Raised("detectable_star_brightness")
    /\ cfg = HAWKI_ETC(cfg.exposure_time, cfg.airmass, cfg.pwv, cfg.seeing,
                       cfg.obstruction_factor, cfg.reflectance_factor)

\* the lookups a call on filter f starts with, in the order the code makes them
LookupsOf(op) ==
    CASE op = "sky_noise" -> <<"in_skycalc_background">>
      [] op = "compute_sn" -> <<"for_flux_in_filter", "in_skycalc_background">>
      [] op = "detectable_star_brightness" -> <<"in_skycalc_background", "in_zero_vega_mags">>
      [] OTHER -> <<>>

SomeLookupFails(op, f) == \E i \in 1..Len(LookupsOf(op)) : ~Answers(svc, LookupsOf(op)[i], f)

\* C4: when a lookup of sky_noise, compute_sn or detectable_star_brightness
\* fails, the call raises the service's own error, returns no value, and the
\* failed lookup is the last one made: it is made once and nothing follows it.
C4_LookupFailurePropagates ==
    (last.op \in {"sky_noise", "compute_sn", "detectable_star_brightness"}
       /\ SomeLookupFails(last.op, last.args.filter))
    => /\ last.outcome = "raise"
       /\ last.ty = "none"
       /\ last.v = NoValue
       /\ Len(last.calls) >= 1
       /\ \A i \in 1..Len(last.calls) :
            /\ last.calls[i].ok <=> i < Len(last.calls)
            /\ last.calls[i].fn = LookupsOf(last.op)[i]
       /\ last.exc = ServiceError(svc, last.calls[Len(last.calls)].fn, last.args.filter)

\* compute_sn got its photon flux and then failed in the sky lookup
C4_Witness ==
    /\ Raised("compute_sn")
    /\ Len(last.calls) = 2
    /\ last.calls[1].ok
    /\ ~last.calls[2].ok
    /\ last.exc = "hmbp: service unreachable"

\* C8: sky_noise and dark_current_noise return electrons, read_noise returns
\* electrons squared: every other base unit cancels.
C8_NoiseUnits ==
    /\ Returned("sky_noise") => last.u = Electron
    /\ last.op = "dark_current_noise" => last.outcome = "return" /\ last.u = Electron
    /\ last.op = "read_noise" => last.outcome = "return" /\ last.u = UPow(Electron, 2)

C8_Witness == Returned("read_noise") /\ last.u = UPow(Electron, 2) /\ last.u # Electron

Index(events, e) == CHOOSE i \in 1..Len(events) : events[i] = e
Has(events, e) == \E i \in 1..Len(events) : events[i] = e

\* C9: plot with savefig and a filename that is not a str raises the filename
\* check's TypeError before any I/O is attempted: no lookup of the photometry
\* service has been made, no file is written, and neither plt.savefig nor
\* plt.show is reached.  With a str filename the figure is saved before it is
\* shown and returned.  No file is ever written under a name that is not a str.
C9_ValidateBeforeIO ==
    /\ (last.op = "plot" /\ last.args.savefig /\ ~last.args.filename.str)
       => /\ last.outcome = "raise"
          /\ last.exc = "TypeError: filename has to be a string"
          /\ last.calls = <<>>
          /\ last.wrote = {}
          /\ ~Has(last.events, "savefig")
          /\ ~Has(last.events, "show")
    /\ (Returned("plot") /\ last.args.savefig)
       => /\ last.args.filename.str
          /\ last.wrote = {last.args.filename.name}
          /\ Has(last.events, "savefig")
          /\ Has(last.events, "show")
          /\ Index(last.events, "savefig") < Index(last.events, "show")
          /\ last.ty = "figure"
    /\ \A req \in SaveRequests : ~req.filename.str => req.filename.name \notin files

\* the total noise variance of the compute_sn that last ran to its return
LastVariance ==
    TotalVariance(Signal(cfg, for_flux_in_filter(svc, last.args.filter, last.args.star_flux).q).v,
                  sky_noise(cfg, svc, sys, last.args.filter).v,
                  dark_current_noise(cfg, sys).v, read_noise(cfg, sys).v)

\* C2: whenever the total noise variance is zero or negative, compute_sn either
\* fails with DegenerateNoiseError or returns +infinity.
C2_DegenerateNoiseDefined ==
    (Returned("compute_sn") /\ FLe(LastVariance, Zero)) => last.v = PInf

\* C5: flux_to_mag raises DomainError whenever flux / F0_electron <= 0, and
\* returns a magnitude only when that ratio is strictly positive.
LastRatio == FDiv(last.args.flux, F0_electron(cfg, Q(ZeroPoint, PhotonFluxUnit)).v)

C5_DomainError ==
    last.op = "flux_to_mag"
    => /\ FLe(LastRatio, Zero) => last.outcome = "raise" /\ last.exc = "DomainError"
       /\ last.outcome = "return" => FGt(LastRatio, Zero)

\* C1: for the configuration, the service and the filter of a compute_sn that
\* returned, every fainter magnitude gives a signal-to-noise ratio that is not
\* above the one returned.  (A magnitude is carried by 10^(-0.4 M): fainter is
\* smaller.)
C1_MonotoneInBrightness ==
    Returned("compute_sn")
    => \A m2 \in Magnitudes :
         FLt(m2, last.args.star_flux)
         => FGe(last.v, compute_sn(cfg, svc, sys, m2, last.args.filter).v)

WithSeeing(self, see) ==
    HAWKI_ETC(self.exposure_time, self.airmass, self.pwv, see, self.obstruction_factor,
              self.reflectance_factor)

\* the noise term that last ran, for another object
NoiseTerm(op, self) ==
    CASE op = "sky_noise" -> sky_noise(self, svc, sys, last.args.filter)
      [] op = "dark_current_noise" -> dark_current_noise(self, sys)
      [] op = "read_noise" -> read_noise(self, sys)

NoiseOps == {"sky_noise", "dark_current_noise", "read_noise"}

LargerSeeings == {s2 \in Seeings : FLt(cfg.seeing.v, s2.v)}

\* a larger seeing gives a larger aperture and a strictly larger noise term
GrowsWithSeeing ==
    \A s2 \in LargerSeeings :
        /\ FLt(cfg.aper.v, WithSeeing(cfg, s2).aper.v)
        /\ FLt(last.v, NoiseTerm(last.op, WithSeeing(cfg, s2)).v)

\* C6 as stated: with a positive sky background, the aperture and the noise
\* term a call returned are strictly larger for every larger seeing, the other
\* parameters fixed.
C6_Original ==
    (last.op \in NoiseOps /\ last.outcome = "return" /\ FGt(svc.sky, Zero))
    => GrowsWithSeeing

\* C6: with a positive sky background, a positive exposure time, positive
\* efficiency factors and a seeing that is not negative, the aperture and the
\* noise term a call returned are strictly larger for every larger seeing.
C6_NoiseGrowsWithSeeing ==
    (/\ last.op \in NoiseOps
     /\ last.outcome = "return"
     /\ FGt(svc.sky, Zero)
     /\ FGt(cfg.exposure_time.v, Zero)
     /\ FGt(cfg.obstruction_factor, Zero)
     /\ FGt(cfg.reflectance_factor, Zero)
     /\ FGe(cfg.seeing.v, Zero))
    => GrowsWithSeeing

\* sky_noise returned a positive noise for a seeing that has a larger one
C6_Witness ==
    /\ Returned("sky_noise")
    /\ FGt(last.v, Zero)
    /\ FGt(svc.sky, Zero)
    /\ FGt(cfg.exposure_time.v, Zero)
    /\ FGt(cfg.obstruction_factor, Zero)
    /\ FGt(cfg.reflectance_factor, Zero)
    /\ FGe(cfg.seeing.v, Zero)
    /\ LargerSeeings # {}

\* the noise floor of detectable_star_brightness
NoiseFloor ==
    FAdd(FAdd(sky_noise(cfg, svc, sys, last.args.filter).v, dark_current_noise(cfg, sys).v),
         read_noise(cfg, sys).v)

\* compute_sn at the magnitude detectable_star_brightness returned
SnrAtReturned == compute_sn(cfg, svc, sys, last.v, last.args.filter)

BelowDesired ==
    SnrAtReturned.outcome = "return" /\ FLt(SnrAtReturned.v, last.args.desired_sn)

\* C10 as stated: with a positive noise floor, a positive desired_sn and a
\* service whose source flux agrees with its zero point, compute_sn at the
\* returned magnitude is strictly below desired_sn.
C10_Original ==
    (/\ Returned("detectable_star_brightness")
     /\ svc.src = Dec(1, 0)
     /\ FGt(NoiseFloor, Zero)
     /\ FGt(last.args.desired_sn, Zero))
    => BelowDesired

\* C10: the same, for a positive exposure time and a positive collection area.
C10_ForwardBelowInverse ==
    (/\ Returned("detectable_star_brightness")
     /\ svc.src = Dec(1, 0)
     /\ FGt(NoiseFloor, Zero)
     /\ FGt(last.args.desired_sn, Zero)
     /\ FGt(cfg.exposure_time.v, Zero)
     /\ FGt(cfg.collection_area.v, Zero))
    => BelowDesired

\* a limiting magnitude was returned for desired_sn = 5 and compute_sn there is
\* a number below 5
C10_Witness ==
    /\ Returned("detectable_star_brightness")
    /\ svc.src = Dec(1, 0)
    /\ FGt(NoiseFloor, Zero)
    /\ FGt(last.args.desired_sn, Zero)
    /\ FGt(cfg.exposure_time.v, Zero)
    /\ IsNum(last.v)
    /\ IsNum(SnrAtReturned.v)
    /\ BelowDesired
====
